---- MODULE Spec2Model ----
(***************************************************************************)
(* The ephemeral session coordinator of anonchat (GhostTalk): the          *)
(* socket.io server of src/unnamed/part_000 (second program, lines         *)
(* 234-555), the moderation module of src/services/socketService.ts        *)
(* (lines 96-129) and the parts of the React client (src/unnamed/part_004, *)
(* src/unnamed/part_001) that build the server's inputs or show its        *)
(* outputs.                                                                *)
(*                                                                         *)
(* Time is Date.now() in milliseconds, counted from an instant that is a   *)
(* multiple of 120 minutes, so the clock-aligned boundaries keep their     *)
(* arithmetic.  The clock moves by AdvanceTime; the 1-second ticker, the   *)
(* socket handlers and the client callbacks each run to completion (Node's *)
(* event loop; the awaits in the server resolve in the same macrotask      *)
(* because moderate and generateTopic do no I/O).                          *)
(***************************************************************************)
EXTENDS Integers, Sequences, FiniteSets, TLC

VARIABLES
    now,                \* Date.now()
    advances,           \* number of clock advances so far (bounded)
    connected,          \* sockets with an open connection
    users,              \* users: Map socket.id -> user (its id), NoUser = no entry
    communityMessages,  \* community buffer, in arrival order
    privateRooms,       \* privateRooms: Map id -> room, in insertion order
    communityTimerEnd,
    siteTimerEnd,
    sessionStyle,
    currentTopic,
    quietStart,
    quietEnd,
    modState,           \* per-socket hasSeenSoftFirst, borderlineCount, isShadowLimited
    msgCount,           \* number of MESSAGE posts so far (message ids)
    chatMessages,       \* the observing client's `messages` state (community part)
    chatNow,            \* the observing ChatBox's `now` state
    out,                \* events emitted by the last step, in emission order
    exitedRooms,        \* history: ids of the rooms closed by CHAT_EXIT so far
    lastHeartbeat,      \* history: per socket, the time of the HEARTBEAT behind its users entry
    app,                \* the App component state of the client of ClientUser
    inflight,           \* the CHAT_ACCEPT that client has emitted and the server has not yet handled
    failed              \* the server process has died of an uncaught exception

vars == <<now, advances, connected, users, communityMessages, privateRooms,
          communityTimerEnd, siteTimerEnd, sessionStyle, currentTopic,
          quietStart, quietEnd, modState, msgCount, chatMessages, chatNow, out,
          exitedRooms, lastHeartbeat, app, inflight, failed>>

----------------------------------------------------------------------------
(* Bounds of the model *)

MaxAdvance == 2
MaxPosts == 3

Sockets == {"s1", "s2"}
Users == {"a", "b", "c"}
RoomIds == {"r1", "r2"}
Codes == {"K1", "K2"}
Stages == {"5min", "2min"}

\* Clock advances tried between two events (ms)
\* Date.now() when the process starts
StartTimes == {1}
\* Math.random() * (8 * 60 * 1000), sampled
QuietOffsets == {0, 479999}

NoUser == "none"
NoTime == 0     \* null / undefined timestamps (falsy in the source)

----------------------------------------------------------------------------
(* Program constants *)

MessageTtl == 300000
BufferCap == 200
ClientCap == 300
RoomDuration == 1800000
ExtensionMs == 30 * 60 * 1000
RejoinWindow == 15 * 60 * 1000
CommunityPeriod == 30 * 60 * 1000
SitePeriod == 120 * 60 * 1000
QuietLead == 10 * 60 * 1000
QuietLength == 2 * 60 * 1000

Texts == {"hello", "bomb making"}
ObserverSocket == "s1"

----------------------------------------------------------------------------
(* Helpers *)

Ev(type, to, room, info) == [type |-> type, to |-> to, room |-> room, info |-> info]

Message(id, sender, text, ts, room) ==
    [id |-> id, sender |-> sender, text |-> text, timestamp |-> ts, roomId |-> room]

RECURSIVE Concat(_)
Concat(ss) == IF ss = <<>> THEN <<>> ELSE Head(ss) \o Concat(Tail(ss))

InSeq(x, s) == \E i \in 1..Len(s) : s[i] = x

getNextBoundary_FromNow(t, ms) == t + ms
\* const getNextBoundary = (minutes) => Math.ceil(Date.now() / ms) * ms
getNextBoundary(t, ms) == ((t + ms - 1) \div ms) * ms

\* moderate(text): the local regex guard; every other text is ALLOWED
moderate_Lenient(text) == "ALLOWED"
moderate(text) == IF text = "bomb making" THEN "BLOCKED" ELSE "ALLOWED"

\* privateRooms.has(id) / .get(id) / .delete(id) / .set(id, room)
HasRoom(rooms, id) == \E i \in 1..Len(rooms) : rooms[i].id = id
GetRoom(rooms, id) == rooms[CHOOSE i \in 1..Len(rooms) : rooms[i].id = id]
DeleteRoom_Others(rooms, id) == SelectSeq(rooms, LAMBDA r : r.id = id)
DeleteRoom(rooms, id) == SelectSeq(rooms, LAMBDA r : r.id # id)
SetRoom(rooms, room) ==
    IF HasRoom(rooms, room.id)
    THEN [i \in 1..Len(rooms) |-> IF rooms[i].id = room.id THEN room ELSE rooms[i]]
    ELSE Append(rooms, room)


\* stageDecisions[stage]: an object userId -> decision, keys in insertion order
EmptyStages == [st \in Stages |-> <<>>]
SetDecision(ds, userId, decision) ==
    IF \E i \in 1..Len(ds) : ds[i][1] = userId
    THEN [i \in 1..Len(ds) |-> IF ds[i][1] = userId THEN <<userId, decision>> ELSE ds[i]]
    ELSE Append(ds, <<userId, decision>>)
DecisionValues(ds) == [i \in 1..Len(ds) |-> ds[i][2]]

\* Array.from(users.values()).filter(u => room.participants.includes(u.id)).length
activeParticipantsCount(us, room) ==
    Cardinality({s \in Sockets : us[s] # NoUser /\ InSeq(us[s], room.participants)})

\* calculateQuietMoment(endTime) with randomOffset = offset
calcQuietStart_ShortLead(endTime, offset) == (endTime - QuietLength) + offset
calcQuietStart(endTime, offset) == (endTime - QuietLead) + offset
calcQuietEnd(endTime, offset) == calcQuietStart(endTime, offset) + QuietLength

FlipStyle(style) == IF style = "DEEP" THEN "PLAYFUL" ELSE "DEEP"

\* generateTopic: the pools, the first and the last of the four topics of each
deepFallbacks == {"What is a thought you've never shared out loud?",
                  "What is a secret you carry that feels heavy today?"}
playfulFallbacks == {"What is your most harmless unpopular opinion?",
                     "What's a quirk you have that no one knows about?"}
\* the topics pool[Math.floor(Math.random() * pool.length)] can return
generateTopic(style) == IF style = "DEEP" THEN deepFallbacks ELSE playfulFallbacks
\* generateTopic('DEEP') at startup, sampled
StartTopics == {"What is a thought you've never shared out loud?"}

\* payloads of the reset events
ResetCommunityEvent(nextReset, topic, qStart, qEnd) ==
    Ev("RESET_COMMUNITY", "all", "", ToString(<<nextReset, topic, qStart, qEnd>>))
ResetSiteEvent(nextReset) == Ev("RESET_SITE", "all", "", ToString(nextReset))

FreshModState == [soft |-> FALSE, borderline |-> 0, shadow |-> FALSE]

\* ChatBox: messages.filter(m => now - m.timestamp < 300000) for the community room
visibleMessages == SelectSeq(chatMessages, LAMBDA m : chatNow - m.timestamp < MessageTtl)

----------------------------------------------------------------------------
(* The client of one participant: the App component of part_004, with the  *)
(* state that invitations, its copies of the rooms and the extension       *)
(* prompts live in.  Its listeners run when the server's events reach its  *)
(* connection.                                                             *)

\* the connection and the currentUser.id of the modelled client
ClientSocket == "s2"
ClientUser == "c"
\* setTimeout(() => setActiveIncomingRequest(null), 30000)
InviteTtl == 30000

\* null values of the client's state, and of the message it has in flight
NoRequest == [fromId |-> NoUser, toId |-> NoUser, timestamp |-> NoTime]
NoPopup == [roomId |-> "", stage |-> ""]
NoDataRoom ==
    [id |-> "", participants |-> <<>>, reconnectCode |-> "",
     createdAt |-> NoTime, expiresAt |-> NoTime, extended |-> FALSE]
NoAccept == [request |-> NoRequest, room |-> NoDataRoom]

\* useState / useRef initial values of App, mounted at time t
AppInit(t) ==
    [activeIncomingRequest |-> NoRequest,
     requestExpiryTimer |-> NoTime,
     isOpenToPrivate |-> TRUE,
     privateRooms |-> <<>>,
     promptedStages |-> [id \in RoomIds |-> {}],
     showExtendPopup |-> NoPopup,
     siteTimerEnd |-> t + 7200000]

\* the fields of a room the client reads from its copy
ClientRoom(room) ==
    [id |-> room.id, participants |-> room.participants,
     reconnectCode |-> room.reconnectCode,
     expiresAt |-> room.expiresAt, extended |-> room.extended]

\* CHAT_REQUEST listener: the request is shown when it is addressed to this
\* client, the client is open to private chats and holds no room
RequestShown(a, toId) ==
    toId = ClientUser /\ a.isOpenToPrivate /\ Len(a.privateRooms) = 0
ShowRequest(a, request, t) ==
    [a EXCEPT !.activeIncomingRequest = request, !.requestExpiryTimer = t + InviteTtl]

\* one listener of the client, for the event e emitted at time t; rooms and ste
\* are the server's rooms and siteTimerEnd that the payload is taken from
AppOnEvent(a, e, rooms, ste, t) ==
    CASE e.type = "CHAT_REQUEST" ->
            IF RequestShown(a, e.info)
            THEN ShowRequest(a, [fromId |-> e.room, toId |-> e.info, timestamp |-> t], t)
            ELSE a
      [] e.type \in {"CHAT_ACCEPT", "CHAT_EXTENDED"} ->
            IF HasRoom(rooms, e.room) /\ InSeq(ClientUser, GetRoom(rooms, e.room).participants)
            THEN [a EXCEPT !.privateRooms = SetRoom(@, ClientRoom(GetRoom(rooms, e.room))),
                           !.showExtendPopup = IF e.type = "CHAT_EXTENDED" THEN NoPopup ELSE @]
            ELSE a
      [] e.type = "CHAT_CLOSED" -> [a EXCEPT !.privateRooms = DeleteRoom(@, e.room)]
      [] e.type \in {"HEARTBEAT", "INIT_STATE"} ->
            [a EXCEPT !.siteTimerEnd = ste]
      [] OTHER -> a

RECURSIVE AppReceive(_, _, _, _, _)
AppReceive(a, events, rooms, ste, t) ==
    IF events = <<>> THEN a
    ELSE AppReceive(AppOnEvent(a, Head(events), rooms, ste, t), Tail(events), rooms, ste, t)

\* the events of a step that reach the client: io.emit, socket.emit to it, and
\* socket.broadcast.emit of another connection
DeliveredTo(events, sender, conn) ==
    IF ClientSocket \in conn
    THEN SelectSeq(events, LAMBDA e : \/ e.to = "all"
                                      \/ e.to = ClientSocket
                                      \/ (e.to = "others" /\ sender # ClientSocket))
    ELSE <<>>

\* the client's state after the listeners have run on the events of this step
AppListens(a, sender) ==
    app' = AppReceive(a, DeliveredTo(out', sender, connected'), privateRooms',
                      siteTimerEnd', now)

\* { ...data.room, stageDecisions } of a CHAT_ACCEPT without room: every field
\* of the stored room but stageDecisions is undefined, the Map key included
UndefinedId == "undefined"
UndefinedRoom ==
    [id |-> UndefinedId, participants |-> <<>>, reconnectCode |-> UndefinedId,
     createdAt |-> NoTime, expiresAt |-> NoTime, extended |-> FALSE,
     stageDecisions |-> EmptyStages, rejoinStartedAt |-> NoTime]
\* room.participants is undefined: room.participants.includes throws a TypeError
Malformed(room) == room.id = UndefinedId

----------------------------------------------------------------------------
(* Initial state: the module-level statements of the server *)

InitFrom(starts) ==
    /\ now \in starts
    /\ advances = 0
    /\ connected = {}
    /\ users = [s \in Sockets |-> NoUser]
    /\ privateRooms = <<>>
    /\ communityTimerEnd = getNextBoundary(now, CommunityPeriod)
    /\ siteTimerEnd = getNextBoundary(now, SitePeriod)
    /\ sessionStyle = "DEEP"
    /\ currentTopic \in StartTopics
    /\ \E o \in QuietOffsets :
          /\ quietStart = calcQuietStart(communityTimerEnd, o)
          /\ quietEnd = calcQuietEnd(communityTimerEnd, o)
    /\ modState = [s \in Sockets |-> FreshModState]
    /\ msgCount = 0
    /\ chatMessages = <<>>
    /\ chatNow = now
    /\ out = <<>>
    /\ exitedRooms = {}
    /\ lastHeartbeat = [s \in Sockets |-> NoTime]
    /\ app = AppInit(now)
    /\ inflight = NoAccept
    /\ failed = FALSE

Init ==
    /\ InitFrom(StartTimes)
    /\ communityMessages = <<>>

----------------------------------------------------------------------------
(* The clock *)

AdvanceTime(d) ==
    /\ advances < MaxAdvance
    /\ now' = now + d
    /\ advances' = advances + 1
    /\ out' = <<>>
    /\ UNCHANGED <<connected, users, communityMessages, privateRooms, communityTimerEnd,
                   siteTimerEnd, sessionStyle, currentTopic, quietStart, quietEnd,
                   modState, msgCount, chatMessages, chatNow, exitedRooms,
                   lastHeartbeat, app, inflight, failed>>

----------------------------------------------------------------------------
(* The main ticker: setInterval(() => {...}, 1000) *)

\* What the room loop does to one room at time t with presence us
RoomExpired_UnlessExtended(room, t) ==
    ~Malformed(room) /\ ~room.extended /\ t > room.expiresAt
\* (now > undefined is false: a room stored without expiresAt never expires)
RoomExpired(room, t) == ~Malformed(room) /\ t > room.expiresAt
RejoinExpired(room, t, us) ==
    /\ ~RoomExpired(room, t)
    /\ activeParticipantsCount(us, room) < 2
    /\ room.rejoinStartedAt # NoTime
    /\ t - room.rejoinStartedAt > RejoinWindow
TickRoom(room, t, us) ==
    IF activeParticipantsCount(us, room) < 2
    THEN IF room.rejoinStartedAt = NoTime
         THEN [room EXCEPT !.rejoinStartedAt = t]
         ELSE room
    ELSE [room EXCEPT !.rejoinStartedAt = NoTime]
TickRoomEvents_NoContinue(room, t, us) ==
    (IF RoomExpired(room, t)
     THEN <<Ev("CHAT_CLOSED", "all", room.id, "expired")>> ELSE <<>>)
    \o (IF /\ activeParticipantsCount(us, room) < 2
           /\ room.rejoinStartedAt # NoTime
           /\ t - room.rejoinStartedAt > RejoinWindow
        THEN <<Ev("CHAT_CLOSED", "all", room.id, "rejoin_expired")>> ELSE <<>>)
TickRoomEvents(room, t, us) ==
    IF RoomExpired(room, t)
    THEN <<Ev("CHAT_CLOSED", "all", room.id, "expired")>>
    ELSE IF RejoinExpired(room, t, us)
         THEN <<Ev("CHAT_CLOSED", "all", room.id, "rejoin_expired")>>
         ELSE <<>>
RoomLoop(rooms, t, us) ==
    LET kept == SelectSeq(rooms, LAMBDA r : ~RoomExpired(r, t) /\ ~RejoinExpired(r, t, us))
    IN  [i \in 1..Len(kept) |-> TickRoom(kept[i], t, us)]
RoomLoopEvents_ExpiredOnly(rooms, t, us) ==
    Concat([i \in 1..Len(rooms) |->
               IF RoomExpired(rooms[i], t) THEN TickRoomEvents(rooms[i], t, us) ELSE <<>>])
RoomLoopEvents(rooms, t, us) ==
    Concat([i \in 1..Len(rooms) |-> TickRoomEvents(rooms[i], t, us)])
\* a room stored without participants is in the set
HasMalformed(rooms) == \E i \in 1..Len(rooms) : Malformed(rooms[i])
\* the filter callback runs once per presence entry: with at least one entry
\* room.participants.includes throws on such a room.  BeforeThrow are the
\* rooms the loop reaches before that, FromThrow the rooms it never reaches
LoopThrows(rooms, us) ==
    HasMalformed(rooms) /\ \E s \in Sockets : us[s] # NoUser
FirstMalformed(rooms) ==
    CHOOSE i \in 1..Len(rooms) :
        Malformed(rooms[i]) /\ \A j \in 1..(i - 1) : ~Malformed(rooms[j])
BeforeThrow(rooms, us) ==
    IF LoopThrows(rooms, us) THEN SubSeq(rooms, 1, FirstMalformed(rooms) - 1) ELSE rooms
FromThrow(rooms, us) ==
    IF LoopThrows(rooms, us) THEN SubSeq(rooms, FirstMalformed(rooms), Len(rooms)) ELSE <<>>

\* communityMessages.filter(m => now - m.timestamp < 300000)
CleanupMessages(msgs, t) == SelectSeq(msgs, LAMBDA m : t - m.timestamp < MessageTtl)

CommunityDue == now >= communityTimerEnd
SiteDue == now >= siteTimerEnd

Tick ==
    LET cr == CommunityDue
        sr == SiteDue
        us == IF sr THEN [s \in Sockets |-> NoUser] ELSE users
        msgs == IF cr \/ sr THEN <<>> ELSE communityMessages
        rooms == IF sr THEN <<>> ELSE privateRooms
        cte == IF cr \/ sr THEN getNextBoundary(now, CommunityPeriod)
               ELSE communityTimerEnd
        ste == IF sr THEN getNextBoundary(now, SitePeriod) ELSE siteTimerEnd
        style == IF cr THEN FlipStyle(sessionStyle) ELSE sessionStyle
        \* the uncaught TypeError ends the process before the continuation of
        \* resetCommunity (topic, quiet moment, RESET_COMMUNITY) can run
        throws == LoopThrows(rooms, us)
    IN  /\ ~failed
        /\ failed' = throws
        /\ users' = us
        /\ communityMessages' = CleanupMessages(msgs, now)
        /\ privateRooms' = RoomLoop(BeforeThrow(rooms, us), now, us) \o FromThrow(rooms, us)
        /\ communityTimerEnd' = cte
        /\ siteTimerEnd' = ste
        /\ sessionStyle' = style
        /\ IF cr /\ ~throws THEN currentTopic' \in generateTopic(style)
           ELSE UNCHANGED currentTopic
        /\ IF (cr /\ ~throws) \/ sr
           THEN \E o \in QuietOffsets :
                   /\ quietStart' = calcQuietStart(cte, o)
                   /\ quietEnd' = calcQuietEnd(cte, o)
           ELSE UNCHANGED <<quietStart, quietEnd>>
        \* RESET_SITE, then the room loop's CHAT_CLOSED, then (after the await in
        \* resetCommunity) RESET_COMMUNITY
        /\ out' = (IF sr THEN <<ResetSiteEvent(ste)>> ELSE <<>>)
                  \o RoomLoopEvents(BeforeThrow(rooms, us), now, us)
                  \o (IF cr /\ ~throws
                      THEN <<ResetCommunityEvent(cte, currentTopic', quietStart', quietEnd')>>
                      ELSE <<>>)
        \* client: RESET_COMMUNITY drops the community messages
        /\ chatMessages' = IF cr /\ ObserverSocket \in connected THEN <<>> ELSE chatMessages
        \* users.clear() in resetSite forgets every heartbeat
        /\ lastHeartbeat' = IF sr THEN [s \in Sockets |-> NoTime] ELSE lastHeartbeat
        /\ UNCHANGED <<now, advances, connected, modState, msgCount, chatNow, exitedRooms,
                       inflight>>
        /\ AppListens(app, NoUser)

----------------------------------------------------------------------------
(* io.on('connection') and the per-socket handlers *)

LastN(s, n) == IF Len(s) > n THEN SubSeq(s, Len(s) - n + 1, Len(s)) ELSE s

\* client: setMessages(prev => [...prev, m].slice(-300)), skipping a known id
ClientAppend(msgs, m) ==
    IF \E i \in 1..Len(msgs) : msgs[i].id = m.id THEN msgs ELSE LastN(Append(msgs, m), ClientCap)

Connect(s) ==
    /\ ~failed
    /\ s \notin connected
    /\ connected' = connected \cup {s}
    /\ modState' = [modState EXCEPT ![s] = FreshModState]
    /\ out' = <<Ev("INIT_STATE", s, "", "")>>
    \* client INIT_STATE listener: setMessages(data.communityMessages)
    /\ chatMessages' = IF s = ObserverSocket THEN communityMessages ELSE chatMessages
    /\ UNCHANGED <<now, advances, users, communityMessages, privateRooms, communityTimerEnd,
                   siteTimerEnd, sessionStyle, currentTopic, quietStart, quietEnd,
                   msgCount, chatNow, exitedRooms,
                   lastHeartbeat, inflight, failed>>
    /\ AppListens(app, s)

Disconnect(s) ==
    /\ ~failed
    /\ s \in connected
    /\ connected' = connected \ {s}
    /\ users' = [users EXCEPT ![s] = NoUser]
    /\ lastHeartbeat' = [lastHeartbeat EXCEPT ![s] = NoTime]
    /\ out' = <<>>
    /\ UNCHANGED <<now, advances, communityMessages, privateRooms, communityTimerEnd,
                   siteTimerEnd, sessionStyle, currentTopic, quietStart, quietEnd,
                   modState, msgCount, chatMessages, chatNow, exitedRooms, app, inflight, failed>>

Heartbeat(s, u) ==
    /\ ~failed
    /\ s \in connected
    /\ users' = [users EXCEPT ![s] = u]
    /\ lastHeartbeat' = [lastHeartbeat EXCEPT ![s] = now]
    /\ out' = <<Ev("HEARTBEAT", "others", "", u)>>
    /\ UNCHANGED <<now, advances, connected, communityMessages, privateRooms,
                   communityTimerEnd, siteTimerEnd, sessionStyle, currentTopic,
                   quietStart, quietEnd, modState, msgCount, chatMessages, chatNow, exitedRooms, inflight, failed>>
    /\ AppListens(app, s)

\* communityMessages.push(m); if (communityMessages.length > 200) communityMessages.shift()
PushMessage_Pop(msgs, m) ==
    IF Len(msgs) + 1 > BufferCap THEN msgs ELSE Append(msgs, m)
PushMessage(msgs, m) ==
    IF Len(msgs) + 1 > BufferCap THEN Tail(Append(msgs, m)) ELSE Append(msgs, m)

InQuietMoment_Open(roomId) == roomId = "community" /\ now > quietStart /\ now < quietEnd
InQuietMoment(roomId) == roomId = "community" /\ now >= quietStart /\ now <= quietEnd

\* socket.on('MESSAGE'): the message is built by the client's handleSendMessage
PostMessage(s, text, roomId) ==
    LET m == Message(msgCount + 1, s, text, now, roomId)
        sysQuiet == Message(-(msgCount + 1), "system", "Quiet moment. Just read.", now, "community")
        sysClosed == Message(-(msgCount + 1), "system", "This private chat has ended.", now,
                             "community")
        status == moderate(text)
        ms == modState[s]
        bl == IF status = "BORDERLINE" THEN ms.borderline + 1 ELSE ms.borderline
        ms2 == IF status = "BORDERLINE"
               THEN [soft |-> TRUE, borderline |-> bl, shadow |-> (ms.shadow \/ bl > 4)]
               ELSE ms
        warn == IF status = "BORDERLINE" /\ ~ms.soft
                THEN <<Ev("MESSAGE", s, roomId, "sys_soft")>> ELSE <<>>
        \* handleSendMessage adds the own message to the sender's list
        own == IF s = ObserverSocket /\ roomId = "community"
               THEN ClientAppend(chatMessages, m) ELSE chatMessages
    IN  /\ ~failed
        /\ s \in connected
        /\ msgCount < MaxPosts
        /\ msgCount' = msgCount + 1
        /\ IF InQuietMoment(roomId)
           THEN /\ out' = <<Ev("MESSAGE", s, "community", "sys_quiet")>>
                /\ chatMessages' = IF s = ObserverSocket
                                   THEN ClientAppend(own, sysQuiet) ELSE own
                /\ UNCHANGED <<communityMessages, privateRooms, modState>>
           ELSE IF status = "BLOCKED"
           THEN /\ IF roomId # "community"
                   THEN IF HasRoom(privateRooms, roomId)
                        THEN /\ privateRooms' = DeleteRoom(privateRooms, roomId)
                             /\ out' = <<Ev("CHAT_CLOSED", "all", roomId, "moderation")>>
                             \* client CHAT_CLOSED listener: data.systemMessage is
                             \* added to the messages with roomId 'community'
                             /\ chatMessages' = IF ObserverSocket \in connected
                                                THEN Append(own, sysClosed) ELSE own
                        ELSE /\ out' = <<>>
                             /\ chatMessages' = own
                             /\ UNCHANGED privateRooms
                   ELSE /\ out' = <<Ev("MESSAGE", s, roomId, "echo")>>
                        /\ chatMessages' = own
                        /\ UNCHANGED privateRooms
                /\ UNCHANGED <<communityMessages, modState>>
           ELSE IF ms2.shadow
           THEN /\ modState' = [modState EXCEPT ![s] = ms2]
                /\ out' = warn \o <<Ev("MESSAGE", s, roomId, "echo")>>
                /\ chatMessages' = own
                /\ UNCHANGED <<communityMessages, privateRooms>>
           ELSE /\ modState' = [modState EXCEPT ![s] = ms2]
                /\ communityMessages' = IF roomId = "community"
                                        THEN PushMessage(communityMessages, m)
                                        ELSE communityMessages
                /\ out' = warn \o <<Ev("MESSAGE", "all", roomId, "msg")>>
                \* client MESSAGE listener (io.emit reaches every connected client)
                /\ chatMessages' = IF roomId = "community" /\ ObserverSocket \in connected
                                   THEN ClientAppend(own, m) ELSE own
                /\ UNCHANGED privateRooms
        /\ UNCHANGED <<now, advances, connected, users, communityTimerEnd, siteTimerEnd,
                       sessionStyle, currentTopic, quietStart, quietEnd, chatNow, exitedRooms,
                   lastHeartbeat, inflight, failed>>
        /\ AppListens(app, s)

\* ChatBox: setInterval(() => setNow(Date.now()), 1000)
ChatBoxTick ==
    /\ chatNow' = now
    /\ out' = <<>>
    /\ UNCHANGED <<now, advances, connected, users, communityMessages, privateRooms,
                   communityTimerEnd, siteTimerEnd, sessionStyle, currentTopic,
                   quietStart, quietEnd, modState, msgCount, chatMessages, exitedRooms,
                   lastHeartbeat, app, inflight, failed>>

----------------------------------------------------------------------------
(* Private rooms *)

\* socket.on('CHAT_REQUEST'): relayed to the other connections
ChatRequest(s, from, to) ==
    /\ ~failed
    /\ s \in connected
    /\ from # to
    /\ out' = <<Ev("CHAT_REQUEST", "others", from, to)>>
    /\ UNCHANGED <<now, advances, connected, users, communityMessages, privateRooms,
                   communityTimerEnd, siteTimerEnd, sessionStyle, currentTopic,
                   quietStart, quietEnd, modState, msgCount, chatMessages, chatNow, exitedRooms,
                   lastHeartbeat, inflight, failed>>
    /\ AppListens(app, s)

\* client acceptRequest(req): the room sent with CHAT_ACCEPT
acceptRequest(id, from, to, code) ==
    [id |-> id, participants |-> <<from, to>>, reconnectCode |-> code,
     createdAt |-> now, expiresAt |-> now + RoomDuration, extended |-> FALSE]

\* socket.on('CHAT_ACCEPT'): { ...data.room, stageDecisions: {'5min': {}, '2min': {}} }
AcceptedRoom(dataRoom) ==
    [id |-> dataRoom.id, participants |-> dataRoom.participants,
     reconnectCode |-> dataRoom.reconnectCode, createdAt |-> dataRoom.createdAt,
     expiresAt |-> dataRoom.expiresAt, extended |-> dataRoom.extended,
     stageDecisions |-> EmptyStages, rejoinStartedAt |-> NoTime]

ChatAcceptRoom(s, dataRoom) ==
    /\ ~failed
    /\ s \in connected
    /\ privateRooms' = SetRoom(privateRooms, AcceptedRoom(dataRoom))
    /\ out' = <<Ev("CHAT_ACCEPT", "all", dataRoom.id, "accept")>>
    \* the client's CHAT_ACCEPT in flight is this message: it has arrived
    /\ inflight' = IF s = ClientSocket /\ inflight.room = dataRoom THEN NoAccept ELSE inflight
    /\ UNCHANGED <<now, advances, connected, users, communityMessages,
                   communityTimerEnd, siteTimerEnd, sessionStyle, currentTopic,
                   quietStart, quietEnd, modState, msgCount, chatMessages, chatNow,
                   exitedRooms, lastHeartbeat, failed>>
    /\ AppListens(app, s)

\* a client that builds the room with acceptRequest as the message arrives
ChatAccept(s, id, from, to, code) ==
    /\ from # to
    /\ ChatAcceptRoom(s, acceptRequest(id, from, to, code))

\* socket.on('CHAT_EXIT')
ChatExit(s, roomId) ==
    /\ ~failed
    /\ s \in connected
    /\ IF HasRoom(privateRooms, roomId)
       THEN /\ privateRooms' = DeleteRoom(privateRooms, roomId)
            /\ out' = <<Ev("CHAT_CLOSED", "all", roomId, "exit")>>
            /\ exitedRooms' = exitedRooms \cup {roomId}
       ELSE /\ out' = <<>>
            /\ UNCHANGED <<privateRooms, exitedRooms>>
    /\ UNCHANGED <<now, advances, connected, users, communityMessages,
                   communityTimerEnd, siteTimerEnd, sessionStyle, currentTopic,
                   quietStart, quietEnd, modState, msgCount, chatMessages, chatNow,
                   lastHeartbeat, inflight, failed>>
    /\ AppListens(app, s)

\* socket.on('CHAT_EXTENSION_DECISION')
AllExtend(ds) == \A i \in 1..Len(ds) : ds[i] = "EXTEND"
\* decisions.find(d => d === 'LATER' || d === 'END') and the text chosen from it
DeclineText(ds) ==
    LET hits == {i \in 1..Len(ds) : ds[i] \in {"LATER", "END"}}
        first == CHOOSE i \in hits : \A j \in hits : i <= j
    IN  IF hits = {} THEN "declined"
        ELSE IF ds[first] = "LATER" THEN "later" ELSE "end"
\* the room after the decision has been recorded and, with two decisions, resolved
RecordDecision(room, stage, userId, decision) ==
    [room EXCEPT !.stageDecisions[stage] = SetDecision(@, userId, decision)]
StageResolves(room, stage) == Len(room.stageDecisions[stage]) >= 2
StageExtends(room, stage) ==
    StageResolves(room, stage) /\ AllExtend(DecisionValues(room.stageDecisions[stage]))
ExtendRoom_FromOldExpiry(room, t) ==
    [room EXCEPT !.extended = TRUE, !.expiresAt = room.expiresAt + ExtensionMs]
ExtendRoom_FromCreation(room, t) ==
    [room EXCEPT !.extended = TRUE, !.expiresAt = room.createdAt + RoomDuration + ExtensionMs]
ExtendRoom(room, t) == [room EXCEPT !.extended = TRUE, !.expiresAt = t + ExtensionMs]
DecisionIgnored(rooms, roomId) == ~HasRoom(rooms, roomId) \/ GetRoom(rooms, roomId).extended

ExtensionDecision(s, roomId, stage, decision, userId) ==
    /\ ~failed
    /\ s \in connected
    /\ IF DecisionIgnored(privateRooms, roomId)
       THEN /\ out' = <<>>
            /\ UNCHANGED privateRooms
       ELSE LET recorded == RecordDecision(GetRoom(privateRooms, roomId), stage, userId, decision)
            IN  IF StageExtends(recorded, stage)
                THEN /\ privateRooms' = SetRoom(privateRooms, ExtendRoom(recorded, now))
                     /\ out' = <<Ev("CHAT_EXTENDED", "all", roomId, "extended"),
                                 Ev("MESSAGE", "all", roomId, "sys_ext")>>
                ELSE /\ privateRooms' = SetRoom(privateRooms, recorded)
                     /\ out' = IF StageResolves(recorded, stage)
                               THEN <<Ev("MESSAGE", "all", roomId,
                                         DeclineText(DecisionValues(recorded.stageDecisions[stage])))>>
                               ELSE <<>>
    /\ UNCHANGED <<now, advances, connected, users, communityMessages,
                   communityTimerEnd, siteTimerEnd, sessionStyle, currentTopic,
                   quietStart, quietEnd, modState, msgCount, chatMessages, chatNow, exitedRooms,
                   lastHeartbeat, inflight, failed>>
    /\ AppListens(app, s)

\* socket.on('CHAT_REJOIN')
RejoinSilent(s) == users[s] = NoUser
FindRoomByCode(rooms, code) ==
    LET hits == {i \in 1..Len(rooms) : rooms[i].reconnectCode = code}
    IN  IF hits = {} THEN 0 ELSE CHOOSE i \in hits : \A j \in hits : i <= j
JoinRoom(room, userId) ==
    IF InSeq(userId, room.participants) THEN room
    ELSE [room EXCEPT !.participants = Append(@, userId)]

ChatRejoin(s, code) ==
    LET i == FindRoomByCode(privateRooms, code)
    IN  /\ ~failed
        /\ s \in connected
        /\ IF RejoinSilent(s)
           THEN /\ out' = <<>>
                /\ UNCHANGED privateRooms
           ELSE IF i # 0
           THEN /\ privateRooms' = [privateRooms EXCEPT ![i] = JoinRoom(@, users[s])]
                /\ out' = <<Ev("CHAT_ACCEPT", "all", privateRooms[i].id, "rejoin")>>
           ELSE /\ out' = <<Ev("ERROR", s, "", "Invalid or Expired Secret Key")>>
                /\ UNCHANGED privateRooms
        /\ UNCHANGED <<now, advances, connected, users, communityMessages,
                       communityTimerEnd, siteTimerEnd, sessionStyle, currentTopic,
                       quietStart, quietEnd, modState, msgCount, chatMessages, chatNow, exitedRooms,
                   lastHeartbeat, inflight, failed>>
        /\ AppListens(app, s)

----------------------------------------------------------------------------
(* The callbacks of the client: its timers and what its user clicks *)

\* the server's variables, which no callback of the client assigns
serverVars == <<users, communityMessages, privateRooms, communityTimerEnd, siteTimerEnd,
                sessionStyle, currentTopic, quietStart, quietEnd, modState, exitedRooms,
                lastHeartbeat, failed>>

\* requestExpiryTimer fires: setActiveIncomingRequest(null)
AppRequestTimeout ==
    /\ app.requestExpiryTimer # NoTime
    /\ now >= app.requestExpiryTimer
    /\ app' = [app EXCEPT !.activeIncomingRequest = NoRequest, !.requestExpiryTimer = NoTime]
    /\ out' = <<>>
    /\ UNCHANGED <<now, advances, connected, serverVars, msgCount, chatMessages, chatNow,
                   inflight>>

\* the Decline button: setActiveIncomingRequest(null)
AppDecline ==
    /\ app.activeIncomingRequest # NoRequest
    /\ app' = [app EXCEPT !.activeIncomingRequest = NoRequest]
    /\ out' = <<>>
    /\ UNCHANGED <<now, advances, connected, serverVars, msgCount, chatMessages, chatNow,
                   inflight>>

\* the consent switch: setIsOpenToPrivate(!isOpenToPrivate)
AppToggleOpen ==
    /\ app' = [app EXCEPT !.isOpenToPrivate = ~@]
    /\ out' = <<>>
    /\ UNCHANGED <<now, advances, connected, serverVars, msgCount, chatMessages, chatNow,
                   inflight>>

\* the Accept button: acceptRequest(activeIncomingRequest) emits CHAT_ACCEPT
\* with the room built now, and clears the request
AppAccept(id, code) ==
    LET req == app.activeIncomingRequest
    IN  /\ req # NoRequest
        /\ inflight = NoAccept
        /\ inflight' = [request |-> req,
                        room |-> acceptRequest(id, req.fromId, req.toId, code)]
        /\ app' = [app EXCEPT !.activeIncomingRequest = NoRequest]
        /\ out' = <<>>
        /\ UNCHANGED <<now, advances, connected, serverVars, msgCount, chatMessages, chatNow>>

\* the client's CHAT_ACCEPT reaches the server
DeliverAccept ==
    /\ inflight # NoAccept
    /\ ChatAcceptRoom(ClientSocket, inflight.room)

\* the extension popup is closed: its backdrop, or handleExtensionDecision
\* after it has emitted the decision
AppClosePopup ==
    /\ app.showExtendPopup # NoPopup
    /\ app' = [app EXCEPT !.showExtendPopup = NoPopup]
    /\ out' = <<>>
    /\ UNCHANGED <<now, advances, connected, serverVars, msgCount, chatMessages, chatNow,
                   inflight>>

\* the 1-second tick of App: the stage it prompts for a room, "" for none
PromptStage_NoMemory(room, t, stages) ==
    LET remaining == room.expiresAt - t
    IN  IF ~room.extended /\ remaining > 0
        THEN IF remaining <= 300000 /\ remaining > 120000 THEN "5min"
             ELSE IF remaining <= 120000 THEN "2min"
             ELSE ""
        ELSE ""
PromptStage(room, t, stages) ==
    LET remaining == room.expiresAt - t
    IN  IF ~room.extended /\ remaining > 0
        THEN IF remaining <= 300000 /\ remaining > 120000 /\ "5min" \notin stages THEN "5min"
             ELSE IF remaining <= 120000 /\ "2min" \notin stages THEN "2min"
             ELSE ""
        ELSE ""
\* promptedStages and showExtendPopup after privateRooms.forEach
PromptedAfter(rooms, t, prompted) ==
    [id \in RoomIds |->
        prompted[id] \cup ({PromptStage(rooms[i], t, prompted[id]) :
                               i \in {j \in 1..Len(rooms) : rooms[j].id = id}} \ {""})]
PopupAfter(rooms, t, prompted, popup) ==
    LET hits == {i \in 1..Len(rooms) : PromptStage(rooms[i], t, prompted[rooms[i].id]) # ""}
        last == CHOOSE i \in hits : \A j \in hits : j <= i
    IN  IF hits = {} THEN popup
        ELSE [roomId |-> rooms[last].id,
              stage |-> PromptStage(rooms[last], t, prompted[rooms[last].id])]
\* if (remaining <= 0) the client drops its copy of the room
LocallyExpired(room, t) == room.expiresAt - t <= 0

\* checkTimers reloads the page at siteTimerEnd: App is mounted anew and the
\* old connection closes, which runs the server's disconnect handler
AppTick ==
    LET reload == now >= app.siteTimerEnd
        rooms == app.privateRooms
    IN  /\ IF reload
           THEN /\ app' = AppInit(now)
                /\ connected' = connected \ {ClientSocket}
                /\ users' = IF failed THEN users ELSE [users EXCEPT ![ClientSocket] = NoUser]
                /\ lastHeartbeat' = IF failed THEN lastHeartbeat
                                    ELSE [lastHeartbeat EXCEPT ![ClientSocket] = NoTime]
           ELSE /\ app' = [app EXCEPT
                             !.promptedStages = PromptedAfter(rooms, now, @),
                             !.showExtendPopup =
                                 PopupAfter(rooms, now, app.promptedStages, @),
                             !.privateRooms =
                                 SelectSeq(rooms, LAMBDA r : ~LocallyExpired(r, now))]
                /\ UNCHANGED <<connected, users, lastHeartbeat>>
        /\ out' = <<>>
        /\ UNCHANGED <<now, advances, communityMessages, privateRooms, communityTimerEnd,
                       siteTimerEnd, sessionStyle, currentTopic, quietStart, quietEnd,
                       modState, msgCount, chatMessages, chatNow, exitedRooms, inflight,
                       failed>>

----------------------------------------------------------------------------
(* Inbound events with missing fields *)

\* HEARTBEAT without user: if (!data.user) return
HeartbeatNoUser(s) ==
    /\ ~failed
    /\ s \in connected
    /\ out' = <<>>
    /\ UNCHANGED <<now, advances, connected, serverVars, msgCount, chatMessages, chatNow,
                   app, inflight>>

\* MESSAGE without message or text: if (!data || !data.message || !data.message.text) return
MessageNoText(s) ==
    /\ ~failed
    /\ s \in connected
    /\ out' = <<>>
    /\ UNCHANGED <<now, advances, connected, serverVars, msgCount, chatMessages, chatNow,
                   app, inflight>>

\* CHAT_ACCEPT without room: the handler stores and broadcasts the room all the same
ChatAcceptNoRoom(s) ==
    /\ ~failed
    /\ s \in connected
    /\ privateRooms' = SetRoom(privateRooms, UndefinedRoom)
    /\ out' = <<Ev("CHAT_ACCEPT", "all", UndefinedId, "accept")>>
    /\ UNCHANGED <<now, advances, connected, users, communityMessages,
                   communityTimerEnd, siteTimerEnd, sessionStyle, currentTopic,
                   quietStart, quietEnd, modState, msgCount, chatMessages, chatNow,
                   exitedRooms, lastHeartbeat, inflight, failed>>
    /\ AppListens(app, s)

\* CHAT_EXIT without roomId: privateRooms.has(undefined)
ChatExitNoRoomId(s) == ChatExit(s, UndefinedId)

\* CHAT_EXTENSION_DECISION without fields: privateRooms.get(undefined); on the
\* room stored under undefined it records stageDecisions[undefined][undefined],
\* a stage that no other code reads, and one entry resolves nothing
ExtensionDecisionNoFields(s) ==
    /\ ~failed
    /\ s \in connected
    /\ out' = <<>>
    /\ UNCHANGED <<now, advances, connected, serverVars, msgCount, chatMessages, chatNow,
                   app, inflight>>

\* CHAT_REJOIN without reconnectCode: the room whose reconnectCode is undefined
\* matches, and foundRoom.participants.includes throws
ChatRejoinNoCode(s) ==
    /\ ~failed
    /\ s \in connected
    /\ IF RejoinSilent(s)
       THEN /\ out' = <<>>
            /\ UNCHANGED failed
       ELSE IF HasMalformed(privateRooms)
       THEN /\ out' = <<>>
            /\ failed' = TRUE
       ELSE /\ out' = <<Ev("ERROR", s, "", "Invalid or Expired Secret Key")>>
            /\ UNCHANGED failed
    /\ UNCHANGED <<now, advances, connected, users, communityMessages, privateRooms,
                   communityTimerEnd, siteTimerEnd, sessionStyle, currentTopic,
                   quietStart, quietEnd, modState, msgCount, chatMessages, chatNow,
                   exitedRooms, lastHeartbeat, inflight>>
    /\ AppListens(app, s)

----------------------------------------------------------------------------
(* Specifications.  Each one drives the same handlers with the inputs of   *)
(* one part of the coordinator: the room life cycle and presence, the      *)
(* extension negotiation of one room, the community channel, the resets,   *)
(* the invitations and prompts of one client, rejoins, the ways a room is  *)
(* closed, the life of a room under a fair ticker, and events with missing *)
(* fields.                                                                 *)

\* The life cycle of one room and the presence of its participants
RoomDelays == {1, 900000, 1800000}
\* the ids the connections declare: the two participants of the room
RoomUsers == {"a", "b"}

NextRooms ==
    \/ \E d \in RoomDelays : AdvanceTime(d)
    \/ Tick
    \/ \E s \in Sockets : Connect(s)
    \/ \E s \in Sockets : Disconnect(s)
    \/ \E s \in Sockets, u \in RoomUsers : Heartbeat(s, u)
    \/ \E s \in Sockets : ChatAccept(s, "r1", "a", "b", "K1")
    \/ \E s \in Sockets : ChatExit(s, "r1")
    \/ \E s \in Sockets, code \in Codes : ChatRejoin(s, code)

Spec == Init /\ [][NextRooms]_vars

\* Invitations accepted into several rooms: <<fromId, toId>> of the request
Requests == {<<"a", "b">>, <<"a", "c">>, <<"c", "b">>}
AcceptDelays == {1800000}

NextAccept ==
    \/ \E d \in AcceptDelays : AdvanceTime(d)
    \/ Tick
    \/ Connect("s1")
    \/ \E rq \in Requests : ChatRequest("s1", rq[1], rq[2])
    \/ \E id \in RoomIds, rq \in Requests, code \in Codes :
          ChatAccept("s1", id, rq[1], rq[2], code)
    \/ \E id \in RoomIds : ChatExit("s1", id)

SpecAccept == Init /\ [][NextAccept]_vars

\* The extension negotiation of one room
ExtDelays == {1500000, 1800001}
ExtUsers == {"a", "b"}
ExtDecisions == {"EXTEND", "LATER"}

NextExt ==
    \/ \E d \in ExtDelays : AdvanceTime(d)
    \/ Tick
    \/ Connect("s1")
    \/ ChatAccept("s1", "r1", "a", "b", "K1")
    \/ \E st \in Stages, d \in ExtDecisions, u \in ExtUsers :
          ExtensionDecision("s1", "r1", st, d, u)

SpecExt == Init /\ [][NextExt]_vars

\* The community channel and one client's view of it
CommunityDelays == {1, 299999, 1800000}

NextCommunity ==
    \/ \E d \in CommunityDelays : AdvanceTime(d)
    \/ Tick
    \/ \E s \in Sockets : Connect(s)
    \/ \E s \in Sockets : Disconnect(s)
    \/ \E s \in Sockets, text \in Texts : PostMessage(s, text, "community")
    \/ ChatBoxTick

SpecCommunity == Init /\ [][NextCommunity]_vars

\* The community buffer two messages short of its capacity
FullBuffer == [i \in 1..(BufferCap - 2) |-> Message(1000 + i, "s2", "hello", 1, "community")]

InitBuffer ==
    /\ InitFrom({1})
    /\ communityMessages = FullBuffer

BufferDelays == {1, 299999}

NextBuffer ==
    \/ \E d \in BufferDelays : AdvanceTime(d)
    \/ Tick
    \/ Connect("s2")
    \/ \E text \in Texts : PostMessage("s2", text, "community")

SpecBuffer == InitBuffer /\ [][NextBuffer]_vars

\* The clock-aligned resets: ticks just before, exactly at and after a boundary
ResetDelays == {1, 1799998, 7199999}

NextReset ==
    \/ \E d \in ResetDelays : AdvanceTime(d)
    \/ Tick
    \/ \E s \in Sockets : Connect(s)
    \/ Heartbeat("s2", "a")
    \/ ChatAccept("s2", "r1", "a", "b", "K1")
    \/ PostMessage("s2", "hello", "community")

SpecReset == Init /\ [][NextReset]_vars

\* setInterval keeps calling the ticker: a tick that has work to do happens
SpecResetFair == Init /\ [][NextReset]_vars /\ WF_vars(Tick)

\* The process starts at, just after and long after a clock boundary
ClockStarts == {1, 1800000, 2500000, 7200001}

InitClock ==
    /\ InitFrom(ClockStarts)
    /\ communityMessages = <<>>

NextClock ==
    \/ \E d \in ResetDelays : AdvanceTime(d)
    \/ Tick
    \/ \E s \in Sockets : Connect(s)

SpecClock == InitClock /\ [][NextClock]_vars
\* Messages to the community and to one private room, up to the quiet window
ModDelays == {120000, 1199999}
ModRooms == {"community", "r1"}

NextModeration ==
    \/ \E d \in ModDelays : AdvanceTime(d)
    \/ Tick
    \/ \E s \in Sockets : Connect(s)
    \/ ChatAccept("s1", "r1", "a", "b", "K1")
    \/ \E text \in Texts, roomId \in ModRooms : PostMessage("s2", text, roomId)

SpecModeration == Init /\ [][NextModeration]_vars

\* Invitations to the client: requests of a and b, relayed by the connection s1,
\* shortly before, at and after the 30 s of the expiry timer
InviteDelays == {1, 29999, 30000}
InviteSenders == {"a", "b"}

NextInvite ==
    \/ \E d \in InviteDelays : AdvanceTime(d)
    \/ \E s \in Sockets : Connect(s)
    \/ Heartbeat(ClientSocket, ClientUser)
    \/ \E from \in InviteSenders : ChatRequest("s1", from, ClientUser)
    \/ AppRequestTimeout
    \/ AppDecline
    \/ AppToggleOpen
    \/ AppAccept("r1", "K1")
    \/ DeliverAccept
    \/ \E from \in InviteSenders : ChatAccept("s1", "r1", from, ClientUser, "K1")
    \/ ChatExit(ClientSocket, "r1")

SpecInvite == Init /\ [][NextInvite]_vars

\* The client's extension prompts for its room with a: ticks just outside, at
\* the edges of and inside the two prompt windows, and at the deadline
PromptDelays == {1499999, 1500000, 180000, 300000}
PromptUsers == {"a", "c"}

NextPrompt ==
    \/ \E d \in PromptDelays : AdvanceTime(d)
    \/ \E s \in Sockets : Connect(s)
    \/ ChatAccept("s1", "r1", "a", ClientUser, "K1")
    \/ \E st \in Stages, u \in PromptUsers : ExtensionDecision("s1", "r1", st, "EXTEND", u)
    \/ AppTick
    \/ AppClosePopup

SpecPrompt == Init /\ [][NextPrompt]_vars

\* Decisions sent by the connection of participant a, under its own id, the
\* other participant's and a stranger's
DecideDecisions == {"EXTEND", "END"}

NextDecide ==
    \/ Connect("s1")
    \/ Heartbeat("s1", "a")
    \/ ChatAccept("s1", "r1", "a", "b", "K1")
    \/ \E st \in Stages, d \in DecideDecisions, u \in Users :
          ExtensionDecision("s1", "r1", st, d, u)

SpecDecide == Init /\ [][NextDecide]_vars

\* Rejoins on the second connection, which declares itself as participant a or
\* as the non-member c, next to participant a on the first connection
RejoinCallers == {"a", "c"}
\* 900,001 ms take a room past its rejoin window and twice that past its expiry;
\* 7,199,999 ms lead to the first site reset
RejoinDelays == {900001, 7199999}

NextRejoin ==
    \/ \E d \in RejoinDelays : AdvanceTime(d)
    \/ Tick
    \/ \E s \in Sockets : Connect(s)
    \/ Heartbeat("s1", "a")
    \/ \E u \in RejoinCallers : Heartbeat("s2", u)
    \/ ChatAccept("s1", "r1", "a", "b", "K1")
    \/ \E code \in Codes : ChatRejoin("s2", code)
    \/ ChatExit("s1", "r1")

SpecRejoin == Init /\ [][NextRejoin]_vars

\* Every way a room leaves the active set: expiry and rejoin timeout at a tick,
\* CHAT_EXIT, a BLOCKED message and the site reset; the client is a participant
NextClose ==
    \/ \E d \in RejoinDelays : AdvanceTime(d)
    \/ Tick
    \/ \E s \in Sockets : Connect(s)
    \/ ChatAccept("s1", "r1", "a", ClientUser, "K1")
    \/ ChatExit("s1", "r1")
    \/ PostMessage("s1", "bomb making", "r1")

SpecClose == Init /\ [][NextClose]_vars

\* The whole life of one room whose two participants become present: it is
\* created when its id is not in the active set (no replay), extended, rejoined;
\* setInterval keeps the ticker running and the clock moves on while it can
AliveDelays == {1800001}

NextAlive ==
    \/ \E d \in AliveDelays : AdvanceTime(d)
    \/ Tick
    \/ \E s \in Sockets : Connect(s)
    \/ Heartbeat("s1", "a")
    \/ Heartbeat("s2", "b")
    \/ (~HasRoom(privateRooms, "r1") /\ ChatAccept("s1", "r1", "a", "b", "K1"))
    \/ \E u \in ExtUsers : ExtensionDecision("s1", "r1", "5min", "EXTEND", u)
    \/ ChatRejoin("s2", "K1")

SpecAlive ==
    /\ Init /\ [][NextAlive]_vars
    /\ WF_vars(Tick)
    /\ WF_vars(\E d \in AliveDelays : AdvanceTime(d))

\* Events with missing fields, next to a well-formed room and the ticker
MalformedDelays == {1000}

NextMalformed ==
    \/ \E d \in MalformedDelays : AdvanceTime(d)
    \/ Tick
    \/ \E s \in Sockets : Connect(s)
    \/ Heartbeat("s1", "a")
    \/ ChatAccept("s1", "r1", "a", "b", "K1")
    \/ \E s \in Sockets : HeartbeatNoUser(s)
    \/ \E s \in Sockets : MessageNoText(s)
    \/ \E s \in Sockets : ChatAcceptNoRoom(s)
    \/ \E s \in Sockets : ChatExitNoRoomId(s)
    \/ \E s \in Sockets : ExtensionDecisionNoFields(s)
    \/ \E s \in Sockets : ChatRejoinNoCode(s)

SpecMalformed == Init /\ [][NextMalformed]_vars

----------------------------------------------------------------------------
(* Vocabulary of the properties *)

RoomAt(rooms, id) == GetRoom(rooms, id)
Emitted(events, e) == \E i \in 1..Len(events) : events[i] = e
ParticipantSet(room) == {room.participants[i] : i \in 1..Len(room.participants)}
\* the rooms of the active set that have u among their participants
RoomsOf(u) == {i \in 1..Len(privateRooms) : u \in ParticipantSet(privateRooms[i])}
\* the participants of a room that have an entry in the presence registry
PresentParticipants(room) == {u \in ParticipantSet(room) : \E s \in Sockets : users[s] = u}
DecisionKeys(ds) == {ds[i][1] : i \in 1..Len(ds)}

\* This step records, for stage st of the non-extended room id, the second of
\* its two participants' decisions, and the two recorded decisions are EXTEND
SecondExtendArrives(id, st) ==
    /\ HasRoom(privateRooms, id) /\ HasRoom(privateRooms', id)
    /\ ~RoomAt(privateRooms, id).extended
    /\ RoomAt(privateRooms', id).createdAt = RoomAt(privateRooms, id).createdAt
    /\ RoomAt(privateRooms', id).stageDecisions[st] # RoomAt(privateRooms, id).stageDecisions[st]
    /\ Len(RoomAt(privateRooms', id).stageDecisions[st]) = 2
    /\ DecisionKeys(RoomAt(privateRooms', id).stageDecisions[st])
          = ParticipantSet(RoomAt(privateRooms, id))
    /\ AllExtend(DecisionValues(RoomAt(privateRooms', id).stageDecisions[st]))

----------------------------------------------------------------------------
(* C1: every participant id is a member of at most one room of the active *)
(* private-room set, in every reachable state; an acceptance that would    *)
(* put a participant into a second room creates no room.                   *)
C1_AtMostOneRoom == \A u \in Users : Cardinality(RoomsOf(u)) <= 1

(* C2: when the second of the two participants' decisions for one stage of *)
(* a non-extended room arrives and both recorded decisions are EXTEND, the *)
(* room becomes extended, its expiresAt is the time of that decision plus  *)
(* 1,800,000 ms, and one CHAT_EXTENDED and one system message are emitted  *)
(* for the room.                                                           *)
C2_BothExtendResolves ==
    [][\A id \in RoomIds, st \in Stages :
          SecondExtendArrives(id, st) =>
             /\ RoomAt(privateRooms', id).extended
             /\ RoomAt(privateRooms', id).expiresAt = now + 1800000
             /\ out' = <<Ev("CHAT_EXTENDED", "all", id, "extended"),
                         Ev("MESSAGE", "all", id, "sys_ext")>>]_vars

C2_Witness ==
    /\ HasRoom(privateRooms, "r1")
    /\ RoomAt(privateRooms, "r1").extended
    /\ RoomAt(privateRooms, "r1").expiresAt = now + 1800000
    /\ RoomAt(privateRooms, "r1").stageDecisions["5min"] = <<<<"a", "EXTEND">>, <<"b", "EXTEND">>>>
    /\ Emitted(out, Ev("CHAT_EXTENDED", "all", "r1", "extended"))

(* C3: over the lifetime of a room, extended never returns from true to    *)
(* false, and once it is true nothing changes expiresAt or emits another   *)
(* CHAT_EXTENDED for the room.                                             *)
C3_ExtendedOnce ==
    [][\A id \in RoomIds :
          (/\ HasRoom(privateRooms, id) /\ RoomAt(privateRooms, id).extended
           /\ HasRoom(privateRooms', id))
          => /\ RoomAt(privateRooms', id).extended
             /\ RoomAt(privateRooms', id).expiresAt = RoomAt(privateRooms, id).expiresAt
             /\ ~Emitted(out', Ev("CHAT_EXTENDED", "all", id, "extended"))]_vars

(* C4 as stated: when two EXTEND decisions for the same stage resolve it,  *)
(* expiresAt after the resolution is expiresAt before it plus exactly      *)
(* 1,800,000 ms.                                                           *)
C4_Original ==
    [][\A id \in RoomIds, st \in Stages :
          SecondExtendArrives(id, st) =>
             RoomAt(privateRooms', id).expiresAt
                = RoomAt(privateRooms, id).expiresAt + 1800000]_vars

(* C4 as amended: when two EXTEND decisions for the same stage resolve it, *)
(* expiresAt grows by 1,800,000 ms less the time that was still remaining  *)
(* at the resolving decision (negative once expiresAt has passed), so the  *)
(* room always ends 1,800,000 ms after that decision.                      *)
C4_Amended ==
    [][\A id \in RoomIds, st \in Stages :
          SecondExtendArrives(id, st) =>
             RoomAt(privateRooms', id).expiresAt - RoomAt(privateRooms, id).expiresAt
                = 1800000 - (RoomAt(privateRooms, id).expiresAt - now)]_vars

\* an extension granted with 5 minutes remaining: expiresAt grows by 25 minutes
C4_Witness ==
    /\ HasRoom(privateRooms, "r1")
    /\ Emitted(out, Ev("CHAT_EXTENDED", "all", "r1", "extended"))
    /\ now - RoomAt(privateRooms, "r1").createdAt = 1500000
    /\ RoomAt(privateRooms, "r1").expiresAt - RoomAt(privateRooms, "r1").createdAt = 3300000

(* C5: no private room outlives a 1-hour absolute cap: for every room in   *)
(* the active set, expiresAt - createdAt <= 3,600,000 ms.                  *)
C5_OneHourCap ==
    \A i \in 1..Len(privateRooms) :
        privateRooms[i].expiresAt - privateRooms[i].createdAt <= 3600000

(* C6: at a tick with now >= expiresAt for a room of the active set        *)
(* (now = expiresAt included) the room is removed and CHAT_CLOSED with     *)
(* reason 'expired' is emitted for it.                                     *)
C6_ExpiryAtDeadline ==
    [][Tick =>
          \A i \in 1..Len(privateRooms) :
              now >= privateRooms[i].expiresAt =>
                 /\ ~HasRoom(privateRooms', privateRooms[i].id)
                 /\ Emitted(out', Ev("CHAT_CLOSED", "all", privateRooms[i].id, "expired"))]_vars

(* C7: for a room whose rejoinStartedAt is s and that has not expired: at  *)
(* a tick with now - s > 900,000 ms and fewer than 2 of its participants   *)
(* present, the room is removed with CHAT_CLOSED 'rejoin_expired'; at a    *)
(* tick with now - s <= 899,999 ms and both participants present, the room *)
(* stays, no 'rejoin_expired' is emitted and rejoinStartedAt is cleared.   *)
C7_RejoinWindow ==
    [][(Tick /\ ~SiteDue) =>
          \A i \in 1..Len(privateRooms) :
              LET r == privateRooms[i]
                  closed == Ev("CHAT_CLOSED", "all", r.id, "rejoin_expired")
              IN  (r.rejoinStartedAt # NoTime /\ now <= r.expiresAt) =>
                     /\ (/\ Cardinality(PresentParticipants(r)) < 2
                         /\ now - r.rejoinStartedAt > 900000)
                        => (~HasRoom(privateRooms', r.id) /\ Emitted(out', closed))
                     /\ (/\ Cardinality(PresentParticipants(r)) >= 2
                         /\ now - r.rejoinStartedAt <= 899999)
                        => /\ HasRoom(privateRooms', r.id)
                           /\ RoomAt(privateRooms', r.id).rejoinStartedAt = NoTime
                           /\ ~Emitted(out', closed)]_vars

(* C8: every CHAT_REJOIN whose reconnectCode matches no room of the active *)
(* set sends an ERROR event to the calling connection, whatever the state  *)
(* of that connection.                                                     *)
C8_UnknownCodeError ==
    [][\A s \in Sockets, code \in Codes :
          (ChatRejoin(s, code) /\ FindRoomByCode(privateRooms, code) = 0)
          => Emitted(out', Ev("ERROR", s, "", "Invalid or Expired Secret Key"))]_vars

(* C9: at every instant a community message the client holds is shown if   *)
(* and only if now - timestamp < 300000 (here even with the ChatBox ticker *)
(* on schedule, its last run less than 1000 ms ago).                       *)
C9_VisibleIffYoung ==
    (ObserverSocket \in connected /\ now - chatNow < 1000) =>
        \A i \in 1..Len(chatMessages) :
            InSeq(chatMessages[i], visibleMessages)
               <=> now - chatMessages[i].timestamp < 300000

(* C10: the community buffer never holds more than 200 messages; when an   *)
(* accepted community message arrives while it holds 200, exactly the      *)
(* oldest one is dropped, whatever its age, and the others keep their      *)
(* order, the new message last.                                            *)
C10_BufferCap ==
    [][/\ Len(communityMessages') <= 200
       /\ (/\ Len(communityMessages) = 200
           /\ Emitted(out', Ev("MESSAGE", "all", "community", "msg")))
          => /\ Len(communityMessages') = 200
             /\ \A i \in 1..199 : communityMessages'[i] = communityMessages[i + 1]
             /\ communityMessages'[200].id = msgCount'
             /\ communityMessages'[200].timestamp = now]_vars

\* the 201st message has evicted the oldest one, which was younger than 5 minutes
C10_Witness ==
    /\ Len(communityMessages) = 200
    /\ communityMessages[1] = FullBuffer[2]
    /\ communityMessages[200].id = msgCount
    /\ now - FullBuffer[1].timestamp < MessageTtl
    /\ Emitted(out, Ev("MESSAGE", "all", "community", "msg"))

\* the RESET_COMMUNITY events among the events of a step
CommunityResetsIn(events) == {i \in 1..Len(events) : events[i].type = "RESET_COMMUNITY"}

(* C11: at a tick with now >= communityTimerEnd the community buffer       *)
(* becomes empty, sessionStyle flips, the topic is one of the pool of the  *)
(* new style, and exactly one RESET_COMMUNITY is emitted, carrying the new *)
(* boundary (the next one after now), the topic and the quiet window;      *)
(* sessionStyle changes in no other step.                                  *)
C11_CommunityReset ==
    [][/\ (Tick /\ now >= communityTimerEnd) =>
            /\ communityMessages' = <<>>
            /\ sessionStyle' # sessionStyle /\ sessionStyle' \in {"DEEP", "PLAYFUL"}
            /\ currentTopic' \in (IF sessionStyle' = "DEEP" THEN deepFallbacks
                                                            ELSE playfulFallbacks)
            /\ communityTimerEnd' > now
            /\ Cardinality(CommunityResetsIn(out')) = 1
            /\ Emitted(out', ResetCommunityEvent(communityTimerEnd', currentTopic',
                                                 quietStart', quietEnd'))
       /\ sessionStyle' # sessionStyle => (Tick /\ now >= communityTimerEnd)]_vars

(* C12: in every state (at startup and after every community or site       *)
(* reset) communityTimerEnd - 10 min <= quietStart < communityTimerEnd -   *)
(* 2 min and quietEnd = quietStart + 2 min, so the quiet window ends no    *)
(* later than communityTimerEnd.                                           *)
C12_QuietWindowBounds ==
    /\ communityTimerEnd - 600000 <= quietStart
    /\ quietStart < communityTimerEnd - 120000
    /\ quietEnd = quietStart + 120000
    /\ quietEnd <= communityTimerEnd

\* a community reset has just drawn the latest possible window of the new period
C12_Witness ==
    /\ CommunityResetsIn(out) # {}
    /\ communityTimerEnd > now
    /\ quietStart = communityTimerEnd - 120001
    /\ quietEnd = communityTimerEnd - 1

(* C13: a community MESSAGE received while quietStart <= now <= quietEnd   *)
(* leaves the community buffer unchanged and is broadcast to nobody: the   *)
(* only event of the step is one synthetic system message to the sender,   *)
(* and another client's message list does not change.                      *)
C13_QuietMoment ==
    [][\A s \in Sockets, text \in Texts :
          (PostMessage(s, text, "community") /\ now >= quietStart /\ now <= quietEnd)
          => /\ communityMessages' = communityMessages
             /\ out' = <<Ev("MESSAGE", s, "community", "sys_quiet")>>
             /\ (s # ObserverSocket => chatMessages' = chatMessages)]_vars

\* a message swallowed at the last millisecond of the window, the buffer not empty
C13_Witness ==
    /\ out = <<Ev("MESSAGE", "s2", "community", "sys_quiet")>>
    /\ now = quietEnd
    /\ communityMessages # <<>>

(* C14: a CHAT_EXIT for a room of the active set removes the room in the   *)
(* same step and emits CHAT_CLOSED with reason 'exit', whatever is pending *)
(* for the room; and a room closed by CHAT_EXIT is never in the active set *)
(* again.                                                                  *)
C14_ExitIsFinal ==
    [][/\ \A s \in Sockets, id \in RoomIds :
             (ChatExit(s, id) /\ HasRoom(privateRooms, id))
             => /\ ~HasRoom(privateRooms', id)
                /\ out' = <<Ev("CHAT_CLOSED", "all", id, "exit")>>
       /\ \A id \in exitedRooms' : ~HasRoom(privateRooms', id)]_vars

(* C15: when a message with verdict BLOCKED is addressed to a room of the  *)
(* active set, the room is removed in the same step, the only event is     *)
(* CHAT_CLOSED with reason 'moderation' (it carries the system notice),    *)
(* and the message is delivered to nobody: another client's message list   *)
(* gains at most the system notice.                                        *)
C15_BlockedClosesRoom ==
    [][\A s \in Sockets, id \in RoomIds :
          (PostMessage(s, "bomb making", id) /\ HasRoom(privateRooms, id))
          => /\ ~HasRoom(privateRooms', id)
             /\ out' = <<Ev("CHAT_CLOSED", "all", id, "moderation")>>
             /\ communityMessages' = communityMessages
             /\ (s # ObserverSocket =>
                   chatMessages' \in
                      {chatMessages,
                       Append(chatMessages,
                              Message(-(msgCount + 1), "system",
                                      "This private chat has ended.", now, "community"))})]_vars

\* the room has just been closed for moderation
C15_Witness ==
    /\ out = <<Ev("CHAT_CLOSED", "all", "r1", "moderation")>>
    /\ ~HasRoom(privateRooms, "r1")
    /\ msgCount > 0

(* C16: a community message with verdict BLOCKED reaches its sender only:  *)
(* the buffer is unchanged, every event of the step goes to the sender     *)
(* (the echo, outside the quiet window), no other client's list changes,   *)
(* and the buffer, which INIT_STATE sends, never holds a blocked text.      *)
C16_BlockedCommunityEcho ==
    [][/\ \A s \in Sockets :
             PostMessage(s, "bomb making", "community")
             => /\ communityMessages' = communityMessages
                /\ \A i \in 1..Len(out') : out'[i].to = s
                /\ (~(now >= quietStart /\ now <= quietEnd)
                      => out' = <<Ev("MESSAGE", s, "community", "echo")>>)
                /\ (s # ObserverSocket => chatMessages' = chatMessages)
       /\ \A i \in 1..Len(communityMessages') :
             communityMessages'[i].text # "bomb making"]_vars

\* a blocked message has just been echoed while the buffer holds an earlier message
\* and another client is connected
C16_Witness ==
    /\ out = <<Ev("MESSAGE", "s2", "community", "echo")>>
    /\ communityMessages # <<>>
    /\ ObserverSocket \in connected

(* C19: at a tick with now >= siteTimerEnd, once the tick has completed    *)
(* the presence registry, the private-room set and the community buffer    *)
(* are empty, siteTimerEnd and communityTimerEnd are the next boundaries   *)
(* (the next multiples of 120 and of 30 minutes after now), and RESET_SITE *)
(* has been emitted.                                                       *)
C19_SiteReset ==
    [][(Tick /\ now >= siteTimerEnd) =>
          /\ \A s \in Sockets : users'[s] = NoUser
          /\ privateRooms' = <<>>
          /\ communityMessages' = <<>>
          /\ siteTimerEnd' % 7200000 = 0
          /\ siteTimerEnd' > now /\ siteTimerEnd' - now <= 7200000
          /\ communityTimerEnd' % 1800000 = 0
          /\ communityTimerEnd' > now /\ communityTimerEnd' - now <= 1800000
          /\ Emitted(out', ResetSiteEvent(siteTimerEnd'))]_vars

(* C20: boundary detection is delayed but never skipped.  A tick at any    *)
(* now >= communityTimerEnd (now >= siteTimerEnd) performs the community   *)
(* (site) reset; INIT_STATE never delivers a message posted before a       *)
(* 30-minute boundary that time has passed since; and, ticks being fair,   *)
(* a boundary that time has passed is eventually followed by a reset.      *)
C20_DelayedNeverSkipped ==
    /\ [][/\ ((Tick /\ now >= communityTimerEnd)
                => (communityMessages' = <<>> /\ CommunityResetsIn(out') # {}))
           /\ ((Tick /\ now >= siteTimerEnd)
                => Emitted(out', ResetSiteEvent(siteTimerEnd')))
           /\ \A s \in Sockets :
                 (Connect(s) =>
                    (\A i \in 1..Len(communityMessages) :
                        communityMessages[i].timestamp \div 1800000 = now \div 1800000))]_vars
    /\ ((now >= communityTimerEnd) ~> (CommunityResetsIn(out) # {}))

(* C21: in every reachable state communityTimerEnd is an exact multiple of *)
(* 1,800,000 ms and siteTimerEnd an exact multiple of 7,200,000 ms,        *)
(* whenever the process started and whenever the first connection came.    *)
C21_AlignedBoundaries ==
    /\ communityTimerEnd % 1800000 = 0
    /\ siteTimerEnd % 7200000 = 0

\* started 2,500,000 ms into a site period, and reset at a late tick
C21_Witness ==
    /\ now = 2500000 + 7199999
    /\ communityTimerEnd = 10800000
    /\ siteTimerEnd = 14400000
    /\ connected # {}

(* C22: a tick removes from presence every participant whose last          *)
(* heartbeat is more than 15,000 ms old, though its connection has not     *)
(* reported a disconnect, and every room of that participant kept by the   *)
(* tick is then in its rejoin window (rejoinStartedAt set).                *)
C22_StaleSwept ==
    [][Tick =>
          \A s \in Sockets :
             (users[s] # NoUser /\ now - lastHeartbeat[s] > 15000) =>
                /\ users'[s] = NoUser
                /\ \A i \in 1..Len(privateRooms') :
                      InSeq(users[s], privateRooms'[i].participants)
                         => privateRooms'[i].rejoinStartedAt # NoTime]_vars

(* C23: a tick that keeps a room never changes its expiresAt or extended,  *)
(* whether the room enters, stays in or leaves the rejoin window; when the *)
(* room is in its rejoin window and both participants are present again,   *)
(* the tick clears rejoinStartedAt; and when a participant is absent from  *)
(* a room outside the window, the tick starts a fresh window at now.       *)
C23_RejoinFrame ==
    [][(Tick /\ ~SiteDue) =>
          \A i \in 1..Len(privateRooms) :
              LET r == privateRooms[i]
              IN  HasRoom(privateRooms', r.id) =>
                     /\ RoomAt(privateRooms', r.id).expiresAt = r.expiresAt
                     /\ RoomAt(privateRooms', r.id).extended = r.extended
                     /\ (/\ r.rejoinStartedAt # NoTime
                         /\ Cardinality(PresentParticipants(r)) >= 2)
                        => RoomAt(privateRooms', r.id).rejoinStartedAt = NoTime
                     /\ (/\ r.rejoinStartedAt = NoTime
                         /\ Cardinality(PresentParticipants(r)) < 2)
                        => RoomAt(privateRooms', r.id).rejoinStartedAt = now]_vars

(* C24: while an invitation is pending at the client (shown, not accepted, *)
(* not declined and less than 30 s old), a further CHAT_REQUEST addressed  *)
(* to it leaves the pending invitation and its expiry timer as they are.   *)
C24_OnePending ==
    [][\A from \in InviteSenders :
          (/\ ChatRequest("s1", from, ClientUser)
           /\ app.activeIncomingRequest # NoRequest
           /\ now - app.activeIncomingRequest.timestamp < 30000)
          => /\ app'.activeIncomingRequest = app.activeIncomingRequest
             /\ app'.requestExpiryTimer = app.requestExpiryTimer]_vars

\* the client's participant has a presence entry, is open to invitations and
\* is in no room of the active set
ClientAvailable ==
    /\ \E s \in Sockets : users[s] = ClientUser
    /\ app.isOpenToPrivate
    /\ RoomsOf(ClientUser) = {}

(* C25: a CHAT_REQUEST puts an invitation before the client only if, when  *)
(* it is handled, the client's participant has a presence entry, is open   *)
(* to invitations and is in no private room; and the step after a request  *)
(* to the participant that found it unavailable never creates a room that  *)
(* contains the participant.                                               *)
C25_InviteOnlyIfAvailable ==
    [][/\ \A from \in InviteSenders :
             (/\ ChatRequest("s1", from, ClientUser)
              /\ app'.activeIncomingRequest # app.activeIncomingRequest)
             => ClientAvailable
       /\ \A from \in InviteSenders :
             (/\ out = <<Ev("CHAT_REQUEST", "others", from, ClientUser)>>
              /\ ~ClientAvailable
              /\ privateRooms' # privateRooms)
             => ~(/\ HasRoom(privateRooms', "r1")
                  /\ ClientUser \in ParticipantSet(RoomAt(privateRooms', "r1")))]_vars

(* C26: a CHAT_ACCEPT that reaches the server more than 30,000 ms after    *)
(* its invitation was issued creates or replaces no room and is not        *)
(* broadcast.                                                              *)
C26_LateAcceptRejected ==
    [][(DeliverAccept /\ now - inflight.request.timestamp > 30000)
          => /\ privateRooms' = privateRooms
             /\ \A i \in 1..Len(out') : out'[i].type # "CHAT_ACCEPT"]_vars

\* the window of remaining time in which the tick offers a stage
InStageWindow(stage, remaining) ==
    IF stage = "5min" THEN 120000 < remaining /\ remaining <= 300000
    ELSE 0 < remaining /\ remaining <= 120000

(* C27: the client raises the extension prompt of a stage of a room once:  *)
(* prompted stages are never forgotten while the page lives; a prompt is   *)
(* raised only for a stage not prompted before, for a room whose extended  *)
(* flag is false and whose remaining time lies in the stage's window       *)
(* (120,000 < expiresAt - now <= 300,000 for 5min, 0 < expiresAt - now <=  *)
(* 120,000 for 2min); and the first tick that finds an unextended room in  *)
(* the window of a stage not yet prompted does prompt that stage.          *)
C27_PromptedOnce ==
    [][LET before == app.promptedStages
           after == app'.promptedStages
           popup == app'.showExtendPopup
           InWindow(id, stage) ==
               \E i \in 1..Len(app.privateRooms) :
                   /\ app.privateRooms[i].id = id
                   /\ ~app.privateRooms[i].extended
                   /\ InStageWindow(stage, app.privateRooms[i].expiresAt - now)
       IN  /\ ~(AppTick /\ now >= app.siteTimerEnd)
              => \A id \in RoomIds : before[id] \subseteq after[id]
           /\ (popup # app.showExtendPopup /\ popup # NoPopup)
              => /\ popup.stage \notin before[popup.roomId]
                 /\ popup.stage \in after[popup.roomId]
                 /\ InWindow(popup.roomId, popup.stage)
           /\ \A id \in RoomIds : \A stage \in after[id] \ before[id] :
                 InWindow(id, stage)
           /\ (AppTick /\ now < app.siteTimerEnd)
              => \A id \in RoomIds : \A stage \in {"5min", "2min"} :
                    (InWindow(id, stage) /\ stage \notin before[id])
                    => stage \in after[id]]_vars

C27_Witness ==
    /\ app.promptedStages["r1"] = {"5min", "2min"}
    /\ app.showExtendPopup = [roomId |-> "r1", stage |-> "2min"]
    /\ \E i \in 1..Len(app.privateRooms) :
          app.privateRooms[i].id = "r1" /\ ~app.privateRooms[i].extended

(* C28: a stage of room r1 is resolved (CHAT_EXTENDED or the decline        *)
(* message is emitted) only by a decision that the sending connection      *)
(* submits under its own participant id, and only when the decisions       *)
(* recorded for that stage are those of the room's participants, one from  *)
(* each: decisions under other ids or from a connection that is not the    *)
(* named participant's never count towards the two.                        *)
C28_BothParticipantsDecide ==
    [][\A st \in Stages, d \in DecideDecisions, u \in Users :
          (/\ ExtensionDecision("s1", "r1", st, d, u)
           /\ HasRoom(privateRooms, "r1")
           /\ out' # <<>>)
          => /\ users["s1"] = u
             /\ DecisionKeys(RoomAt(privateRooms', "r1").stageDecisions[st])
                   = ParticipantSet(RoomAt(privateRooms, "r1"))]_vars

(* C29: a decision for room r1 that arrives for a stage already resolved   *)
(* (two decisions are recorded for it, so its outcome was announced)       *)
(* changes neither the room's extended flag nor its expiresAt and emits    *)
(* nothing.                                                                *)
C29_StaleDecisionDiscarded ==
    [][\A st \in Stages, d \in ExtDecisions, u \in ExtUsers :
          (/\ ExtensionDecision("s1", "r1", st, d, u)
           /\ HasRoom(privateRooms, "r1")
           /\ StageResolves(RoomAt(privateRooms, "r1"), st))
          => /\ RoomAt(privateRooms', "r1").extended = RoomAt(privateRooms, "r1").extended
             /\ RoomAt(privateRooms', "r1").expiresAt = RoomAt(privateRooms, "r1").expiresAt
             /\ out' = <<>>]_vars

\* an inbound event with missing fields arrives on connection s
MalformedEvent(s) ==
    \/ HeartbeatNoUser(s)
    \/ MessageNoText(s)
    \/ ChatAcceptNoRoom(s)
    \/ ChatExitNoRoomId(s)
    \/ ExtensionDecisionNoFields(s)
    \/ ChatRejoinNoCode(s)

(* C30: no step puts the coordinator into the failed state, and every      *)
(* inbound event with missing fields (HEARTBEAT without user, MESSAGE      *)
(* without text, CHAT_ACCEPT without room, CHAT_EXIT, CHAT_EXTENSION_-     *)
(* DECISION or CHAT_REJOIN without payload fields) leaves presence, the    *)
(* community buffer and the private-room set unchanged.                    *)
C30_MalformedIsNoOp ==
    [][/\ ~failed'
       /\ \A s \in Sockets :
             MalformedEvent(s)
             => /\ users' = users
                /\ communityMessages' = communityMessages
                /\ privateRooms' = privateRooms]_vars

(* C31: the participants list of a room of the active set never holds more *)
(* than 2 ids: a CHAT_REJOIN that finds the room full and the caller not   *)
(* among its participants leaves the list as it is.                        *)
C31_AtMostTwoParticipants ==
    \A i \in 1..Len(privateRooms) : Len(privateRooms[i].participants) <= 2

(* C32: the reconnect code alone does not open a room.  The CHAT_REJOIN    *)
(* event the server reads carries no secret besides the code, so a caller  *)
(* that is not a participant of the room with that code is never added to  *)
(* it and the room is not re-delivered: the step ends with the same        *)
(* private-room set as the step of a caller that does not know the code.   *)
C32_CodeAloneNotEnough ==
    [][\A code \in Codes :
          (/\ ChatRejoin("s2", code)
           /\ FindRoomByCode(privateRooms, code) # 0
           /\ ~InSeq(users["s2"], privateRooms[FindRoomByCode(privateRooms, code)].participants))
          => /\ privateRooms' = privateRooms
             /\ \A i \in 1..Len(out') : out'[i].type # "CHAT_ACCEPT"]_vars

(* C33: while a room stays in the active set, its expiresAt, extended and  *)
(* stageDecisions change only in the step of an extension decision, of a   *)
(* rejoin or of the ticker; a CHAT_ACCEPT carrying the id of a room of the *)
(* active set leaves the three fields of that room as they are.            *)
C33_AcceptKeepsRoom ==
    [][\A id \in RoomIds :
          (/\ HasRoom(privateRooms, id) /\ HasRoom(privateRooms', id)
           /\ \/ RoomAt(privateRooms', id).expiresAt # RoomAt(privateRooms, id).expiresAt
              \/ RoomAt(privateRooms', id).extended # RoomAt(privateRooms, id).extended
              \/ RoomAt(privateRooms', id).stageDecisions
                    # RoomAt(privateRooms, id).stageDecisions)
          => \/ \E st \in Stages, d \in ExtDecisions, u \in ExtUsers :
                   ExtensionDecision("s1", id, st, d, u)
             \/ \E s \in Sockets, code \in Codes : ChatRejoin(s, code)
             \/ Tick]_vars

(* C34: a tick that resets the community computes a boundary strictly      *)
(* greater than its own time, also when it falls exactly on a multiple of  *)
(* 30 minutes, so that a second tick at the same time does not reset again *)
(* and sessionStyle is toggled once per period.                            *)
C34_OneResetPerBoundary ==
    [][(Tick /\ CommunityDue) =>
          /\ communityTimerEnd' > now
          /\ ~CommunityDue']_vars

\* the ids of the rooms for which the events carry a CHAT_CLOSED
ClosedIn(events) ==
    {events[i].room : i \in {j \in 1..Len(events) : events[j].type = "CHAT_CLOSED"}}

(* C35: closing a room releases its reconnect code.  Every step that emits *)
(* CHAT_CLOSED for a room (or RESET_SITE) ends with the room out of the    *)
(* active set; a room comes into the active set only by CHAT_ACCEPT, never *)
(* by a rejoin or a tick; and a CHAT_REJOIN from a registered connection   *)
(* with a code that no room of the active set carries yields the ERROR     *)
(* event alone and leaves the set as it is.                                *)
C35_ClosedCodeReleased ==
    [][/\ \A id \in ClosedIn(out') : ~HasRoom(privateRooms', id)
       /\ (\E i \in 1..Len(out') : out'[i].type = "RESET_SITE") => privateRooms' = <<>>
       /\ \A id \in RoomIds :
             (~HasRoom(privateRooms, id) /\ HasRoom(privateRooms', id))
             => \E s \in Sockets, rq \in Requests, code \in Codes :
                   ChatAccept(s, id, rq[1], rq[2], code)
       /\ \A s \in Sockets, code \in Codes :
             (/\ ChatRejoin(s, code)
              /\ users[s] # NoUser
              /\ \A i \in 1..Len(privateRooms) : privateRooms[i].reconnectCode # code)
             => /\ out' = <<Ev("ERROR", s, "", "Invalid or Expired Secret Key")>>
                /\ privateRooms' = privateRooms]_vars

\* a rejoin with the code of the room closed by CHAT_EXIT was answered by ERROR
C35_Witness ==
    /\ exitedRooms = {"r1"}
    /\ ~HasRoom(privateRooms, "r1")
    /\ out = <<Ev("ERROR", "s2", "", "Invalid or Expired Secret Key")>>
    /\ users["s2"] = "a"

ClockStopsBefore(id) ==
    /\ advances = MaxAdvance
    /\ HasRoom(privateRooms, id)
    /\ now <= RoomAt(privateRooms, id).expiresAt

(* C39: with a fair ticker and a clock that moves on, a room that is in    *)
(* the active set is eventually out of it, whatever extension decisions,   *)
(* rejoins and presence changes happen, as long as no CHAT_ACCEPT is       *)
(* replayed for its id.  (A run whose clock stops at or before the room's  *)
(* deadline is a run in which time does not move on.)                      *)
C39_RoomEventuallyRemoved ==
    HasRoom(privateRooms, "r1") ~> (~HasRoom(privateRooms, "r1") \/ ClockStopsBefore("r1"))

\* the extended room, both participants present, has been closed as expired
C39_Witness ==
    /\ Emitted(out, Ev("CHAT_CLOSED", "all", "r1", "expired"))
    /\ now = 3600003
    /\ users["s1"] = "a" /\ users["s2"] = "b"
    /\ ~HasRoom(privateRooms, "r1")

(* C40: a tick treats a room as fully present (it keeps the room and       *)
(* leaves it with no rejoin window) only when both participants the room   *)
(* was created with have an entry in the presence registry: two            *)
(* connections declaring the same participant, or a non-member added by    *)
(* CHAT_REJOIN, do not stand in for a missing original participant.        *)
C40_TwoDistinctParticipants ==
    [][(Tick /\ ~SiteDue) =>
          \A i \in 1..Len(privateRooms) :
              LET r == privateRooms[i]
                  original == {r.participants[1], r.participants[2]}
              IN  (/\ HasRoom(privateRooms', r.id)
                   /\ RoomAt(privateRooms', r.id).rejoinStartedAt = NoTime)
                  => \A u \in original : \E s \in Sockets : users[s] = u]_vars

====
